---- MODULE Spec2Model ----
(***************************************************************************)
(* Model of src/benchmark.py: AsyncServerBenchmark (test_server,           *)
(* _make_request, run_benchmark) and the tail of main_async that consumes  *)
(* the value run_benchmark returns.                                        *)
(*                                                                         *)
(* Every action is one step of one asyncio task between two suspension     *)
(* points; the event loop is single-threaded, so such a step is atomic.    *)
(***************************************************************************)
EXTENDS Integers, Sequences, FiniteSets, TLC

\* ------------------------------------------------------------------ bounds
NumTargets == 3         \* len(servers)
RequestsCount == 2      \* requests_count
MaxConcurrent == 2      \* max_concurrent
PerServerLimit == 1     \* per_server_limit
MaxFaults == 1          \* unexpected exceptions injected into test_server tasks

Targets == 1..NumTargets
Requests == 1..RequestsCount

\* Status codes a server may answer with: the first code inside [200, 300)
\* and the first code past it.
StatusCodes == {200, 300}
\* Elapsed times (time.time() - start), in whole time units.
Latencies == {2}

\* A key that a stats dict does not (yet) have.
Absent == -1

VARIABLES
    runState,      \* run_benchmark: Idle, Running, Cancelling, Completed, TimedOut, Interrupted
    cause,         \* why the gather is being cancelled: none, deadline, interrupt
    global_value,  \* global_semaphore._value
    global_waiters,\* global_semaphore._waiters, FIFO, of target tasks
    server_value,  \* server_semaphore._value, one semaphore per target
    pc,            \* position of each test_server task
    stats,         \* the stats dict of each test_server call
    req,           \* each _make_request task of each target
    faults,        \* number of unexpected exceptions raised so far
    results,       \* self.results
    returned,      \* the list run_benchmark returned (<<>> while it has not)
    reported,      \* the dict entries format_results renders (valid_results)
    exitStatus,    \* exit status of the invocation, Absent while it runs
    held,          \* the semaphores each test_server task is inside of, outermost first
    overtaken,     \* a target task has ended before a task of an earlier server
    cli            \* main_async: its position, its arguments, the URLs it kept

vars == <<runState, cause, global_value, global_waiters, server_value, pc,
          stats, req, faults, results, returned, reported, exitStatus,
          held, overtaken, cli>>

\* ------------------------------------------------------------------ helpers
RECURSIVE SumSeq(_)
SumSeq(s) == IF s = <<>> THEN 0 ELSE Head(s) + SumSeq(Tail(s))

RECURSIVE SumSq(_)
SumSq(s) == IF s = <<>> THEN 0 ELSE Head(s) * Head(s) + SumSq(Tail(s))

RECURSIVE MinSeq(_)
MinSeq(s) == IF Len(s) = 1 THEN Head(s)
             ELSE LET m == MinSeq(Tail(s)) IN IF Head(s) < m THEN Head(s) ELSE m

RECURSIVE MaxSeq(_)
MaxSeq(s) == IF Len(s) = 1 THEN Head(s)
             ELSE LET m == MaxSeq(Tail(s)) IN IF Head(s) > m THEN Head(s) ELSE m

\* Exact rationals stand for Python's floats: num / den.
Rat(n, d) == [num |-> n, den |-> d]
Zero == Rat(0, 1)

\* stats = {'url': url, 'success': 0, 'failed': 0, 'errors': 0, 'times': []}
NewStats(url) ==
    [url |-> url, success |-> 0, failed |-> 0, errors |-> 0, times |-> <<>>,
     min |-> Absent, max |-> Absent, avg |-> Rat(Absent, 1), std_dev |-> Rat(Absent, 1)]

\* A _make_request task: st is new (not created), queued (waiting for a
\* connection of the pool), connected, responded, error, cancelled or raised.
\* attempts counts the calls of session.get made for the request.
NewReq == [st |-> "new", status |-> 0, attempts |-> 0]

InFlight(t) == {r \in Requests : req[t][r].st \in {"queued", "connected"}}
Connected(t) == {r \in Requests : req[t][r].st = "connected"}
Settled(t) == {r \in Requests : req[t][r].st \in {"responded", "error"}}

\* Tasks that own a slot of the global semaphore: inside `async with
\* global_sem`, or woken by release() with the slot already taken for them.
HoldsGlobal(t) == pc[t] \in {"woken", "gather"}
\* Tasks inside `async with server_sem`.
HoldsServer(t) == pc[t] = "gather"

\* RecordResponse with the upper edge of the success range included.
RecordResponseUpTo300(s, status, elapsed) ==
    IF 200 <= status /\ status <= 300
    THEN [s EXCEPT !.success = @ + 1, !.times = Append(@, elapsed)]
    ELSE [s EXCEPT !.failed = @ + 1]

\* if 200 <= response.status < 300: success += 1, times.append(elapsed)
\* else: failed += 1
RecordResponse(s, status, elapsed) ==
    IF 200 <= status /\ status < 300
    THEN [s EXCEPT !.success = @ + 1, !.times = Append(@, elapsed)]
    ELSE [s EXCEPT !.failed = @ + 1]

\* RecordError that forgets to count.
RecordErrorDropped(s) == s

\* every except clause of _make_request but CancelledError: errors += 1
RecordError(s) == [s EXCEPT !.errors = @ + 1]

\* RecordCancel without the CancelledError clause: `except Exception` counts it.
RecordCancelAsError(s) == [s EXCEPT !.errors = @ + 1]

\* except asyncio.CancelledError: raise
RecordCancel(s) == s

\* for r in results: if isinstance(r, Exception) and not CancelledError: errors += 1
ScanResults(s, rs) ==
    [s EXCEPT !.errors = @ + Cardinality({r \in Requests : rs[r].st = "raised"})]

\* ComputeTiming without its else branch: no timing keys for an empty list.
ComputeTimingNoElse(s) ==
    LET ts == s.times
        n == Len(ts)
    IN IF ts # <<>>
       THEN [s EXCEPT !.min = MinSeq(ts), !.max = MaxSeq(ts),
                      !.avg = Rat(SumSeq(ts), n),
                      !.std_dev = Rat(n * SumSq(ts) - SumSeq(ts) * SumSeq(ts), n * n)]
       ELSE s

\* if stats['times']: min, max, avg, std_dev of times, else all 0.
\* std_dev is kept as its radicand, the population variance
\* (n * sum(t^2) - sum(t)^2) / n^2; it is 0 exactly when the variance is.
ComputeTiming(s) ==
    LET ts == s.times
        n == Len(ts)
    IN IF ts # <<>>
       THEN [s EXCEPT !.min = MinSeq(ts), !.max = MaxSeq(ts),
                      !.avg = Rat(SumSeq(ts), n),
                      !.std_dev = Rat(n * SumSq(ts) - SumSeq(ts) * SumSeq(ts), n * n)]
       ELSE [s EXCEPT !.min = 0, !.max = 0, !.avg = Zero, !.std_dev = Zero]

\* What gather(..., return_exceptions=True) holds for a finished target task.
DictEntry(s) == [kind |-> "dict", stats |-> s]
ExceptionEntry == [kind |-> "exception", stats |-> NewStats(0)]

TaskResult(t) == IF pc[t] = "done" THEN DictEntry(stats[t]) ELSE ExceptionEntry

\* valid_results = [r for r in results if isinstance(r, dict)]
RECURSIVE ValidResults(_)
ValidResults(rs) ==
    IF rs = <<>> THEN <<>>
    ELSE IF Head(rs).kind = "dict" THEN <<Head(rs)>> \o ValidResults(Tail(rs))
         ELSE ValidResults(Tail(rs))

RECURSIVE Without(_, _)
Without(s, x) ==
    IF s = <<>> THEN <<>>
    ELSE IF Head(s) = x THEN Tail(s) ELSE <<Head(s)>> \o Without(Tail(s), x)

\* Nesting with the two `async with` lines exchanged.
NestingSwapped == <<"server", "global">>

\* Lines 29-30: `async with global_sem` around `async with server_sem`.
Nesting == <<"global", "server">>

\* main_async as seen by a run whose arguments passed lines 213-228: the
\* command line itself is the subject of SpecMain.
DirectCall ==
    [pc |-> "invoked", urls |-> <<>>, valid_urls |-> <<>>, invalid_count |-> 0,
     count |-> RequestsCount, parallel |-> MaxConcurrent,
     per_server |-> PerServerLimit, timeout |-> 1]

Ended(t) == pc[t] \in {"done", "failed", "cancelled"}

\* Task t ends while the task of a server listed before it has not.
Overtakes(t) == \E u \in Targets : u < t /\ ~Ended(u)

\* ------------------------------------------------------------------ init
\* __init__: self.results = []; nothing runs yet.
Init ==
    /\ runState = "Idle"
    /\ cause = "none"
    /\ global_value = 0
    /\ global_waiters = <<>>
    /\ server_value = [t \in Targets |-> 0]
    /\ pc = [t \in Targets |-> "none"]
    /\ stats = [t \in Targets |-> NewStats(t)]
    /\ req = [t \in Targets |-> [r \in Requests |-> NewReq]]
    /\ faults = 0
    /\ results = <<>>
    /\ returned = <<>>
    /\ reported = <<>>
    /\ exitStatus = Absent
    /\ held = [t \in Targets |-> <<>>]
    /\ overtaken = FALSE
    /\ cli = DirectCall

\* ------------------------------------------------------------------ semaphores
\* ReleaseGlobal that only raises the value and wakes nobody.
ReleaseGlobalNoWake(t, p) ==
    /\ pc' = [pc EXCEPT ![t] = p]
    /\ held' = [held EXCEPT ![t] = <<>>]
    /\ global_value' = global_value + 1
    /\ UNCHANGED global_waiters

\* ReleaseGlobal that loses the slot of a task ended by cancellation, as an
\* acquire/release pair without try/finally would.
ReleaseGlobalLostOnCancel(t, p) ==
    IF runState = "Running" /\ global_waiters # <<>>
    THEN /\ pc' = [pc EXCEPT ![t] = p, ![Head(global_waiters)] = "woken"]
         /\ held' = [held EXCEPT ![t] = <<>>, ![Head(global_waiters)] = <<Nesting[1]>>]
         /\ global_waiters' = Tail(global_waiters)
         /\ UNCHANGED global_value
    ELSE /\ pc' = [pc EXCEPT ![t] = p]
         /\ held' = [held EXCEPT ![t] = <<>>]
         /\ global_value' = IF p = "cancelled" THEN global_value ELSE global_value + 1
         /\ UNCHANGED global_waiters

\* Semaphore.release() of the global semaphore by task t, whose pc becomes p:
\* the value goes up by one and the first live waiter, if any, is woken with
\* the slot taken for it. Once the gather is being cancelled every waiter's
\* future is cancelled, so none is woken.
ReleaseGlobal(t, p) ==
    IF runState = "Running" /\ global_waiters # <<>>
    THEN /\ pc' = [pc EXCEPT ![t] = p, ![Head(global_waiters)] = "woken"]
         /\ held' = [held EXCEPT ![t] = <<>>, ![Head(global_waiters)] = <<Nesting[1]>>]
         /\ global_waiters' = Tail(global_waiters)
         /\ UNCHANGED global_value
    ELSE /\ pc' = [pc EXCEPT ![t] = p]
         /\ held' = [held EXCEPT ![t] = <<>>]
         /\ global_value' = global_value + 1
         /\ UNCHANGED global_waiters

\* A semaphore that never locks.
GlobalNeverLocked == FALSE

\* Semaphore.locked(): no free slot, or somebody is already waiting.
GlobalLocked == global_value = 0 \/ global_waiters # <<>>

\* ------------------------------------------------------------------ run_benchmark
\* Lines 78-97: the session, the semaphores and one test_server task per server.
RunBenchmark ==
    /\ runState = "Idle"
    /\ runState' = "Running"
    /\ global_value' = MaxConcurrent
    /\ server_value' = [t \in Targets |-> PerServerLimit]
    /\ pc' = [t \in Targets |-> "created"]
    /\ UNCHANGED <<cause, global_waiters, stats, req, faults, results, returned,
                   reported, exitStatus>>
    /\ UNCHANGED <<held, overtaken, cli>>

\* ------------------------------------------------------------------ test_server
\* Line 31: one _make_request task per request, all created at once.
IssueAll(t) ==
    req' = [req EXCEPT ![t] = [r \in Requests |->
                [st |-> "queued", status |-> 0, attempts |-> req[t][r].attempts + 1]]]

\* Lines 21-32, first step of the task: build the stats dict, then
\* `async with global_sem`. With a free slot the task goes on, without
\* suspending, through `async with server_sem` to the gather of its requests;
\* otherwise it queues on the global semaphore.
TestServerStart(t) ==
    /\ runState = "Running"
    /\ pc[t] = "created"
    /\ stats' = [stats EXCEPT ![t] = NewStats(t)]
    /\ IF GlobalLocked
       THEN /\ global_waiters' = Append(global_waiters, t)
            /\ pc' = [pc EXCEPT ![t] = "waitGlobal"]
            /\ UNCHANGED <<global_value, server_value, req, held>>
       ELSE /\ server_value[t] > 0
            /\ global_value' = global_value - 1
            /\ server_value' = [server_value EXCEPT ![t] = @ - 1]
            /\ pc' = [pc EXCEPT ![t] = "gather"]
            /\ held' = [held EXCEPT ![t] = Nesting]
            /\ IssueAll(t)
            /\ UNCHANGED global_waiters
    /\ UNCHANGED <<runState, cause, faults, results, returned, reported, exitStatus>>
    /\ UNCHANGED <<overtaken, cli>>

\* Lines 29-32, a task woken by release(): it owns the global slot and goes on
\* through `async with server_sem` to the gather of its requests.
TestServerEnter(t) ==
    /\ runState = "Running"
    /\ pc[t] = "woken"
    /\ server_value[t] > 0
    /\ server_value' = [server_value EXCEPT ![t] = @ - 1]
    /\ pc' = [pc EXCEPT ![t] = "gather"]
    /\ held' = [held EXCEPT ![t] = Nesting]
    /\ IssueAll(t)
    /\ UNCHANGED <<runState, cause, global_value, global_waiters, stats, faults,
                   results, returned, reported, exitStatus>>
    /\ UNCHANGED <<overtaken, cli>>

\* Lines 32-47: the gather of the requests is complete; scan its results,
\* leave both `async with` blocks (server slot first, global slot second),
\* compute the timing statistics and return the stats dict.
TestServerFinish(t) ==
    /\ runState = "Running"
    /\ pc[t] = "gather"
    /\ InFlight(t) = {}
    /\ stats' = [stats EXCEPT ![t] = ComputeTiming(ScanResults(stats[t], req[t]))]
    /\ server_value' = [server_value EXCEPT ![t] = @ + 1]
    /\ ReleaseGlobal(t, "done")
    /\ overtaken' = (overtaken \/ Overtakes(t))
    /\ UNCHANGED <<runState, cause, req, faults, results, returned, reported, exitStatus>>
    /\ UNCHANGED cli

\* An unexpected exception (one the code classifies nowhere, e.g. MemoryError)
\* raised by the running code of test_server: in its first step (lines 21-31,
\* where a slot taken is given back at once), at line 31 by a woken task that
\* owns the global slot, or in lines 34-45 after the gather. The `async with`
\* blocks release what the task holds and the exception ends the task.
TestServerFault(t) ==
    /\ runState = "Running"
    /\ faults < MaxFaults
    /\ \/ /\ pc[t] = "created"
          /\ pc' = [pc EXCEPT ![t] = "failed"]
          /\ UNCHANGED <<global_value, global_waiters, server_value, held>>
       \/ /\ pc[t] = "woken"
          /\ ReleaseGlobal(t, "failed")
          /\ UNCHANGED server_value
       \/ /\ pc[t] = "gather"
          /\ InFlight(t) = {}
          /\ server_value' = [server_value EXCEPT ![t] = @ + 1]
          /\ ReleaseGlobal(t, "failed")
    /\ faults' = faults + 1
    /\ overtaken' = (overtaken \/ Overtakes(t))
    /\ UNCHANGED <<runState, cause, stats, req, results, returned, reported, exitStatus>>
    /\ UNCHANGED cli

\* ------------------------------------------------------------------ _make_request
\* Line 53, inside session.get: the connector hands out a connection while
\* fewer than limit_per_host = per_server_limit are open to the host (line 79).
AcquireConnection(t, r) ==
    /\ runState = "Running"
    /\ req[t][r].st = "queued"
    /\ Cardinality(Connected(t)) < PerServerLimit
    /\ req' = [req EXCEPT ![t][r].st = "connected"]
    /\ UNCHANGED <<runState, cause, global_value, global_waiters, server_value, pc,
                   stats, faults, results, returned, reported, exitStatus>>
    /\ UNCHANGED <<held, overtaken, cli>>

\* Lines 53-61: the response arrived and its body was read.
Respond(t, r) ==
    /\ runState = "Running"
    /\ req[t][r].st = "connected"
    /\ \E status \in StatusCodes, elapsed \in Latencies :
          /\ req' = [req EXCEPT ![t][r].st = "responded", ![t][r].status = status]
          /\ stats' = [stats EXCEPT ![t] = RecordResponse(stats[t], status, elapsed)]
    /\ UNCHANGED <<runState, cause, global_value, global_waiters, server_value, pc,
                   faults, results, returned, reported, exitStatus>>
    /\ UNCHANGED <<held, overtaken, cli>>

\* Failed that calls session.get once more instead of giving up.
FailedRetried(rq) == [rq EXCEPT !.st = "queued", !.attempts = @ + 1]

\* Failed whose except clause counts the exception and raises it again.
FailedEscapes(rq) == [rq EXCEPT !.st = "raised"]

\* Lines 63-68 and 71-72: the exception is caught, the coroutine returns None.
Failed(rq) == [rq EXCEPT !.st = "error"]

\* Lines 63-68 and 71-72: timeout (also while waiting for a connection),
\* connection error or any other exception of the request.
TransportError(t, r) ==
    /\ runState = "Running"
    /\ req[t][r].st \in {"queued", "connected"}
    /\ req' = [req EXCEPT ![t][r] = Failed(req[t][r])]
    /\ stats' = [stats EXCEPT ![t] = RecordError(stats[t])]
    /\ UNCHANGED <<runState, cause, global_value, global_waiters, server_value, pc,
                   faults, results, returned, reported, exitStatus>>
    /\ UNCHANGED <<held, overtaken, cli>>

\* Lines 69-70: the cancelled request re-raises CancelledError.
CancelRequest(t, r) ==
    /\ runState = "Cancelling"
    /\ req[t][r].st \in {"queued", "connected"}
    /\ req' = [req EXCEPT ![t][r].st = "cancelled"]
    /\ stats' = [stats EXCEPT ![t] = RecordCancel(stats[t])]
    /\ UNCHANGED <<runState, cause, global_value, global_waiters, server_value, pc,
                   faults, results, returned, reported, exitStatus>>
    /\ UNCHANGED <<held, overtaken, cli>>

\* ------------------------------------------------------------------ cancellation
\* CancelledError reaches a test_server task: before its first step, while it
\* waits for the global semaphore (a woken waiter gives its slot back), or out
\* of the gather once every request task has ended; the `async with` blocks
\* release what the task holds.
CancelTask(t) ==
    /\ runState = "Cancelling"
    /\ \/ /\ pc[t] = "created"
          /\ pc' = [pc EXCEPT ![t] = "cancelled"]
          /\ UNCHANGED <<global_value, global_waiters, server_value, held>>
       \/ /\ pc[t] = "waitGlobal"
          /\ pc' = [pc EXCEPT ![t] = "cancelled"]
          /\ global_waiters' = Without(global_waiters, t)
          /\ UNCHANGED <<global_value, server_value, held>>
       \/ /\ pc[t] = "woken"
          /\ ReleaseGlobal(t, "cancelled")
          /\ UNCHANGED server_value
       \/ /\ pc[t] = "gather"
          /\ InFlight(t) = {}
          /\ server_value' = [server_value EXCEPT ![t] = @ + 1]
          /\ ReleaseGlobal(t, "cancelled")
    /\ UNCHANGED <<runState, cause, stats, req, faults, results, returned,
                   reported, exitStatus>>
    /\ UNCHANGED <<overtaken, cli>>

\* Lines 99-102: wait_for's timeout expires and cancels the gather of the
\* target tasks, which cancels every task that has not ended.
DeadlineFires ==
    /\ runState = "Running"
    /\ runState' = "Cancelling"
    /\ cause' = "deadline"
    /\ UNCHANGED <<global_value, global_waiters, server_value, pc, stats, req,
                   faults, results, returned, reported, exitStatus>>
    /\ UNCHANGED <<held, overtaken, cli>>

\* An external cancellation (SIGINT under asyncio.run cancels the main task),
\* which also overrides a deadline cancellation already under way.
Interrupt ==
    /\ runState \in {"Running", "Cancelling"}
    /\ cause # "interrupt"
    /\ runState' = "Cancelling"
    /\ cause' = "interrupt"
    /\ UNCHANGED <<global_value, global_waiters, server_value, pc, stats, req,
                   faults, results, returned, reported, exitStatus>>
    /\ UNCHANGED <<held, overtaken, cli>>

AllEnded == \A t \in Targets : Ended(t)

\* gather without return_exceptions: the first exception leaves the gather,
\* `except Exception` prints it and self.results keeps the value it had.
GatherResultsRaising ==
    IF \E t \in Targets : pc[t] = "failed"
    THEN results
    ELSE [t \in 1..NumTargets |-> TaskResult(t)]

\* GatherResults that lists the entries last task first.
GatherResultsReversed == [t \in 1..NumTargets |-> TaskResult(NumTargets + 1 - t)]

\* gather(*tasks, return_exceptions=True): one entry per task, in task order.
GatherResults == [t \in 1..NumTargets |-> TaskResult(t)]

\* A timeout handler that hands out every stats dict as it stands.
TimedOutResultsPartial == [t \in 1..NumTargets |-> DictEntry(stats[t])]

\* Lines 104-105: except asyncio.TimeoutError only prints; self.results
\* keeps the value it had.
TimedOutResults == results

\* An except clause wide enough to catch the cancellation as well.
EscapesNever(c) == FALSE

\* Lines 104-107: neither except clause catches CancelledError, which the
\* external cancellation ends the gather with; TimeoutError is caught.
Escapes(c) == c = "interrupt"

\* Lines 99-102 and 109, then main_async lines 240-256: the gather finished in
\* time, self.results is assigned and returned, the report is printed.
ReturnCompleted ==
    /\ runState = "Running"
    /\ \A t \in Targets : pc[t] \in {"done", "failed"}
    /\ runState' = "Completed"
    /\ results' = GatherResults
    /\ returned' = results'
    /\ reported' = ValidResults(returned')
    /\ exitStatus' = 0
    /\ UNCHANGED <<cause, global_value, global_waiters, server_value, pc, stats,
                   req, faults>>
    /\ UNCHANGED <<held, overtaken, cli>>

\* Lines 104-105 and 109, then main_async lines 240-256: wait_for raised
\* TimeoutError once the cancelled gather ended.
ReturnTimedOut ==
    /\ runState = "Cancelling"
    /\ ~Escapes(cause)
    /\ AllEnded
    /\ runState' = "TimedOut"
    /\ results' = TimedOutResults
    /\ returned' = results'
    /\ reported' = ValidResults(returned')
    /\ exitStatus' = 0
    /\ UNCHANGED <<cause, global_value, global_waiters, server_value, pc, stats,
                   req, faults>>
    /\ UNCHANGED <<held, overtaken, cli>>

\* CancelledError is no Exception: it passes lines 104-107 and leaves
\* run_benchmark without a return value; main_async lines 258-260 exit 130.
RaiseInterrupted ==
    /\ runState = "Cancelling"
    /\ Escapes(cause)
    /\ AllEnded
    /\ runState' = "Interrupted"
    /\ exitStatus' = 130
    /\ UNCHANGED <<cause, global_value, global_waiters, server_value, pc, stats,
                   req, faults, results, returned, reported>>
    /\ UNCHANGED <<held, overtaken, cli>>

Next ==
    \/ RunBenchmark
    \/ \E t \in Targets : TestServerStart(t)
    \/ \E t \in Targets : TestServerEnter(t)
    \/ \E t \in Targets : TestServerFinish(t)
    \/ \E t \in Targets : TestServerFault(t)
    \/ \E t \in Targets, r \in Requests : AcquireConnection(t, r)
    \/ \E t \in Targets, r \in Requests : Respond(t, r)
    \/ \E t \in Targets, r \in Requests : TransportError(t, r)
    \/ \E t \in Targets, r \in Requests : CancelRequest(t, r)
    \/ \E t \in Targets : CancelTask(t)
    \/ DeadlineFires
    \/ Interrupt
    \/ ReturnCompleted
    \/ ReturnTimedOut
    \/ RaiseInterrupted

Spec == Init /\ [][Next]_vars

\* A run in which the deadline does not expire, nobody interrupts and no task
\* raises an unexpected exception.
NextLive ==
    \/ RunBenchmark
    \/ \E t \in Targets : TestServerStart(t)
    \/ \E t \in Targets : TestServerEnter(t)
    \/ \E t \in Targets : TestServerFinish(t)
    \/ \E t \in Targets, r \in Requests : AcquireConnection(t, r)
    \/ \E t \in Targets, r \in Requests : Respond(t, r)
    \/ \E t \in Targets, r \in Requests : TransportError(t, r)
    \/ ReturnCompleted

\* The event loop runs every task that is ready, and every issued request
\* eventually settles (the total timeout of line 15 settles it at the latest).
LiveFairness ==
    /\ WF_vars(RunBenchmark)
    /\ WF_vars(ReturnCompleted)
    /\ \A t \in Targets :
          /\ WF_vars(TestServerStart(t))
          /\ WF_vars(TestServerEnter(t))
          /\ WF_vars(TestServerFinish(t))
          /\ \A r \in Requests : WF_vars(Respond(t, r) \/ TransportError(t, r))

SpecLive == Init /\ [][NextLive]_vars /\ LiveFairness

\* self.results as an earlier run on the same instance left it (line 99): that
\* run completed and every request of every server was answered with 200.
LeftoverResults ==
    [t \in 1..NumTargets |->
        DictEntry(ComputeTiming([NewStats(t) EXCEPT
            !.success = RequestsCount,
            !.times = [i \in 1..RequestsCount |-> 2]]))]

\* An instance that is used for a second run: __init__ ran long ago, and
\* run_benchmark resets nothing of self.results before line 99.
InitReuse ==
    /\ runState = "Idle"
    /\ cause = "none"
    /\ global_value = 0
    /\ global_waiters = <<>>
    /\ server_value = [t \in Targets |-> 0]
    /\ pc = [t \in Targets |-> "none"]
    /\ stats = [t \in Targets |-> NewStats(t)]
    /\ req = [t \in Targets |-> [r \in Requests |-> NewReq]]
    /\ faults = 0
    /\ results = LeftoverResults
    /\ returned = <<>>
    /\ reported = <<>>
    /\ exitStatus = Absent
    /\ held = [t \in Targets |-> <<>>]
    /\ overtaken = FALSE
    /\ cli = DirectCall

SpecReuse == InitReuse /\ [][Next]_vars

\* ------------------------------------------------------------------ main_async
MaxUrls == 2            \* URLs on the command line

\* A URL is scheme://[userinfo@]host[:port]; every part is a string, written
\* as the sequence of its characters.
Schemes == {"http", "https", "ftp"}
UserInfos == {<<>>, <<"u", ".", "v">>}
Hosts == {<<>>, <<"h">>, <<"h", ".", "c">>}
Ports == {<<>>, <<"8">>, <<"8", ".", "0">>}
Urls == [scheme : Schemes, userinfo : UserInfos, host : Hosts, port : Ports]

UrlLists == UNION {[1..n -> Urls] : n \in 0..MaxUrls}

\* Values of --count, --parallel, --per-server and --timeout (type=int).
ArgValues == {0, 1}

\* urlparse(url).netloc: everything between "//" and the path, the userinfo
\* and the port included.
Netloc(u) ==
    (IF u.userinfo # <<>> THEN u.userinfo \o <<"@">> ELSE <<>>)
    \o u.host
    \o (IF u.port # <<>> THEN <<":">> \o u.port ELSE <<>>)

\* '.' in text
HasDot(text) == \E i \in 1..Len(text) : text[i] = "."

\* Lines 112-118.
validate_url(u) ==
    /\ u.scheme \in {"http", "https"}
    /\ Netloc(u) # <<>>
    /\ HasDot(Netloc(u))

\* Line 217: valid_urls = [u for u in urls if validate_url(u)]
RECURSIVE SelectValid(_)
SelectValid(urls) ==
    IF urls = <<>> THEN <<>>
    ELSE IF validate_url(Head(urls)) THEN <<Head(urls)>> \o SelectValid(Tail(urls))
         ELSE SelectValid(Tail(urls))

\* The invocation before main_async has looked at its arguments.
InitMain ==
    /\ runState = "Idle"
    /\ cause = "none"
    /\ global_value = 0
    /\ global_waiters = <<>>
    /\ server_value = [t \in Targets |-> 0]
    /\ pc = [t \in Targets |-> "none"]
    /\ stats = [t \in Targets |-> NewStats(t)]
    /\ req = [t \in Targets |-> [r \in Requests |-> NewReq]]
    /\ faults = 0
    /\ results = <<>>
    /\ returned = <<>>
    /\ reported = <<>>
    /\ exitStatus = Absent
    /\ held = [t \in Targets |-> <<>>]
    /\ overtaken = FALSE
    /\ \E urls \in UrlLists, count \in ArgValues, parallel \in ArgValues,
          per_server \in ArgValues, timeout \in ArgValues :
          cli = [pc |-> "start", urls |-> urls, valid_urls |-> <<>>, invalid_count |-> 0,
                 count |-> count, parallel |-> parallel, per_server |-> per_server,
                 timeout |-> timeout]

\* Lines 207-239 and 261-263: main_async up to the call of run_benchmark, or
\* to sys.exit(1) when one of its checks raises ValueError.
MainAsync ==
    /\ cli.pc = "start"
    /\ LET valid == SelectValid(cli.urls)
           invalid == Len(cli.urls) - Len(valid)
           refused == \/ cli.urls = <<>>
                      \/ valid = <<>>
                      \/ cli.count < 1 \/ cli.parallel < 1 \/ cli.per_server < 1
       IN /\ cli' = [cli EXCEPT !.pc = IF refused THEN "exited" ELSE "invoked",
                                 !.valid_urls = IF cli.urls = <<>> THEN <<>> ELSE valid,
                                 !.invalid_count = IF cli.urls = <<>> THEN 0 ELSE invalid]
          /\ exitStatus' = IF refused THEN 1 ELSE Absent
    /\ UNCHANGED <<runState, cause, global_value, global_waiters, server_value, pc,
                   stats, req, faults, results, returned, reported, held, overtaken>>

\* Lines 99-109 for a global_timeout <= 0: wait_for cancels the gather before
\* any target task has run and raises TimeoutError, run_benchmark returns
\* self.results, main_async reports it and ends normally.
RunWithExpiredDeadline ==
    /\ cli.pc = "invoked"
    /\ cli.timeout <= 0
    /\ runState = "Idle"
    /\ runState' = "TimedOut"
    /\ cause' = "deadline"
    /\ results' = TimedOutResults
    /\ returned' = results'
    /\ reported' = ValidResults(returned')
    /\ exitStatus' = 0
    /\ cli' = [cli EXCEPT !.pc = "reported"]
    /\ UNCHANGED <<global_value, global_waiters, server_value, pc, stats, req,
                   faults, held, overtaken>>

NextMain ==
    \/ MainAsync
    \/ RunWithExpiredDeadline

SpecMain == InitMain /\ [][NextMain]_vars

\* ------------------------------------------------------------------ properties
Total(s) == s.success + s.failed + s.errors

Indices(list) == 1..Len(list)

\* The targets that have a stats dict in a list of gather results.
CoveredTargets(list) == {list[i].stats.url : i \in {j \in Indices(list) : list[j].kind = "dict"}}

\* C1: in every state, each target's success + failed + errors is the number
\* of its requests that settled with an outcome and is at most requests_count;
\* a finalized target, and every stats dict run_benchmark returns, has the
\* sum equal to requests_count.
C1_CountersMatchOutcomes ==
    /\ \A t \in Targets :
          /\ Total(stats[t]) = Cardinality(Settled(t))
          /\ Total(stats[t]) <= RequestsCount
          /\ pc[t] = "done" => Total(stats[t]) = RequestsCount
    /\ \A i \in Indices(returned) :
          returned[i].kind = "dict" => Total(returned[i].stats) = RequestsCount

\* C1 witness: a completed run returned a dict whose requests ended in
\* different outcome classes, next to one with only errors.
C1_Witness ==
    /\ runState = "Completed"
    /\ Len(returned) = NumTargets
    /\ returned[1].kind = "dict"
    /\ returned[1].stats.success = 1
    /\ returned[1].stats.failed = 1
    /\ returned[2].kind = "dict"
    /\ returned[2].stats.errors = RequestsCount

\* C2: in every state the number of recorded latencies equals the success
\* counter, and a target finalized with success = 0 has min, max, avg and
\* std_dev all set to 0.
C2_LatenciesMatchSuccess ==
    \A t \in Targets :
        /\ Len(stats[t].times) = stats[t].success
        /\ (pc[t] = "done" /\ stats[t].success = 0) =>
              /\ stats[t].min = 0
              /\ stats[t].max = 0
              /\ stats[t].avg = Zero
              /\ stats[t].std_dev = Zero

\* C2 witness: one target finalized without any success, another with only
\* successes.
C2_Witness ==
    /\ pc[1] = "done"
    /\ stats[1].success = 0
    /\ stats[1].failed = 1
    /\ stats[1].errors = 1
    /\ pc[2] = "done"
    /\ stats[2].success = RequestsCount
    /\ stats[2].min = 2

\* The step in which request r of target t settles with an outcome.
Settles(t, r) ==
    /\ req[t][r].st \in {"queued", "connected"}
    /\ req'[t][r].st \in {"responded", "error"}

\* C3: a request that settles changes exactly one counter of its target by
\* exactly 1: a status in [200, 300) adds one success and one latency sample,
\* any other status one failed and no sample, a transport failure one error
\* and no sample; so a finalized target whose requests all got a status
\* outside [200, 300) has success = 0, failed = requests_count, errors = 0,
\* and one whose requests all failed in transport has errors = requests_count
\* and nothing else.
C3_OneCounterPerOutcome ==
    /\ [][\A t \in Targets, r \in Requests :
            Settles(t, r) =>
                LET old == stats[t]
                    new == stats'[t]
                    code == req'[t][r].status
                    ok == req'[t][r].st = "responded" /\ code >= 200 /\ code < 300
                    bad == req'[t][r].st = "responded" /\ ~(code >= 200 /\ code < 300)
                    err == req'[t][r].st = "error"
                IN /\ new.success = old.success + (IF ok THEN 1 ELSE 0)
                   /\ new.failed = old.failed + (IF bad THEN 1 ELSE 0)
                   /\ new.errors = old.errors + (IF err THEN 1 ELSE 0)
                   /\ Len(new.times) = Len(old.times) + (IF ok THEN 1 ELSE 0)
                   /\ \A u \in Targets \ {t} : stats'[u] = stats[u]]_vars
    /\ [](\A t \in Targets :
            pc[t] = "done" =>
                /\ (\A r \in Requests :
                        req[t][r].st = "responded" /\ ~(req[t][r].status \in 200..299))
                   => (stats[t].success = 0 /\ stats[t].failed = RequestsCount
                       /\ stats[t].errors = 0 /\ stats[t].times = <<>>)
                /\ (\A r \in Requests : req[t][r].st = "error")
                   => (stats[t].errors = RequestsCount /\ stats[t].success = 0
                       /\ stats[t].failed = 0))

\* C3 witness: one finalized target got only non-2xx answers, another only
\* transport failures, a third only successes.
C3_Witness ==
    /\ pc[1] = "done"
    /\ \A r \in Requests : req[1][r].st = "responded" /\ req[1][r].status = 300
    /\ stats[1].failed = RequestsCount
    /\ pc[2] = "done"
    /\ \A r \in Requests : req[2][r].st = "error"
    /\ pc[3] = "done"
    /\ \A r \in Requests : req[3][r].st = "responded" /\ req[3][r].status = 200

\* C4: at no instant do more than max_concurrent targets own a slot of the
\* global semaphore, a target has outstanding requests only while it owns
\* one, and so at most max_concurrent targets have an outstanding request.
C4_GlobalSlotBound ==
    /\ Cardinality({t \in Targets : HoldsGlobal(t)}) <= MaxConcurrent
    /\ \A t \in Targets : InFlight(t) # {} => HoldsGlobal(t)
    /\ Cardinality({t \in Targets : InFlight(t) # {}}) <= MaxConcurrent

\* C4 witness: max_concurrent targets have outstanding requests while a
\* further target waits for the global semaphore.
C4_Witness ==
    /\ Cardinality({t \in Targets : InFlight(t) # {}}) = MaxConcurrent
    /\ \E t \in Targets : pc[t] = "waitGlobal"
    /\ global_value = 0

\* C5 (as claimed): at no instant does a target have more than
\* per_server_limit requests in flight.
C5_PerTargetInFlightBound ==
    \A t \in Targets : Cardinality(InFlight(t)) <= PerServerLimit

\* C6 (as claimed): after a timed-out run, every target whose task had
\* finalized has its stats dict in the list run_benchmark returned.
C6_TimedOutKeepsFinished ==
    runState = "TimedOut" =>
        \A t \in Targets : pc[t] = "done" => t \in CoveredTargets(returned)

\* C7: after a run that timed out before every target task finished, the
\* returned list has no entry of any kind for a target whose task had not
\* finalized, and the targets it covers are a strict subset of the targets.
C7_TimedOutOmitsUnfinished ==
    (runState = "TimedOut" /\ \E t \in Targets : pc[t] # "done") =>
        /\ \A i \in Indices(returned) :
              returned[i].kind = "dict" /\ pc[returned[i].stats.url] = "done"
        /\ CoveredTargets(returned) \subseteq Targets
        /\ CoveredTargets(returned) # Targets

\* C7 witness: a timed-out run in which one target had finalized and another
\* was cancelled with part of its outcomes already counted.
C7_Witness ==
    /\ runState = "TimedOut"
    /\ \E t \in Targets : pc[t] = "done"
    /\ \E t \in Targets : pc[t] = "cancelled" /\ Total(stats[t]) = 1

\* The step in which the task of target t ends with an unexpected exception.
Fails(t) == pc[t] # "failed" /\ pc'[t] = "failed"

\* C8: when a target task fails with an unexpected exception, the step
\* cancels no sibling and touches no sibling's stats or requests, the failed
\* task owns no slot afterwards, both of its semaphores have their slot back
\* and the first sibling waiting for the slot it owned is woken; and a
\* run that completes has the exception as that target's entry and a full
\* stats dict for every other target.
C8_TaskFailureIsolated ==
    /\ [][\A t \in Targets :
            Fails(t) =>
                /\ runState' = runState
                /\ req' = req
                /\ stats' = stats
                /\ \A u \in Targets \ {t} :
                      \/ pc'[u] = pc[u]
                      \/ pc[u] = "waitGlobal" /\ pc'[u] = "woken"
                /\ server_value'[t] = PerServerLimit
                /\ global_value' + Cardinality({u \in Targets : HoldsGlobal(u)'}) = MaxConcurrent
                /\ (HoldsGlobal(t) /\ global_waiters # <<>>) =>
                      pc'[Head(global_waiters)] = "woken"]_vars
    /\ [](runState = "Completed" =>
            /\ Len(results) = NumTargets
            /\ \A t \in Targets :
                  /\ pc[t] = "failed" => results[t].kind = "exception"
                  /\ pc[t] # "failed" =>
                        /\ results[t].kind = "dict"
                        /\ results[t].stats.url = t
                        /\ Total(results[t].stats) = RequestsCount
                        /\ t \in CoveredTargets(reported))

\* C8 witness: a completed run in which one task failed, every sibling
\* finalized and every sibling is reported.
C8_Witness ==
    /\ runState = "Completed"
    /\ \E t \in Targets :
          /\ pc[t] = "failed"
          /\ \A u \in Targets \ {t} : pc[u] = "done"
    /\ Len(reported) = NumTargets - 1

\* The step in which request r of target t is cancelled while outstanding.
Cancelled(t, r) ==
    /\ req[t][r].st \in {"queued", "connected"}
    /\ req'[t][r].st = "cancelled"

\* C9: a request cancelled while outstanding changes no counter and no
\* latency list; a task with a cancelled request never finalizes or fails, it
\* ends cancelled (the cancellation reaches its caller) with counters that
\* count only the outcomes settled before.
C9_CancellationNotAnOutcome ==
    /\ [][\A t \in Targets, r \in Requests : Cancelled(t, r) => stats' = stats]_vars
    /\ [](\A t \in Targets :
            (\E r \in Requests : req[t][r].st = "cancelled") =>
                /\ pc[t] \in {"gather", "cancelled"}
                /\ stats[t].errors = Cardinality({r \in Requests : req[t][r].st = "error"})
                /\ stats[t].min = Absent
                /\ runState \in {"Cancelling", "TimedOut", "Interrupted"}
                /\ (runState # "Cancelling" => pc[t] = "cancelled"))

\* C9 witness: a cancelled task, one request of which had already failed in
\* transport and another of which was cancelled while outstanding.
C9_Witness ==
    \E t \in Targets :
        /\ pc[t] = "cancelled"
        /\ req[t][1].st = "error"
        /\ req[t][2].st = "cancelled"
        /\ stats[t].errors = 1

\* C10 (as claimed): after an interrupted run, every target whose task had
\* finalized has its stats dict returned and reported.
C10_InterruptedKeepsFinished ==
    runState = "Interrupted" =>
        \A t \in Targets :
            pc[t] = "done" =>
                t \in CoveredTargets(returned) /\ t \in CoveredTargets(reported)

\* C11: no request is retried. session.get is called at most once for every
\* request, so at most requests_count times for a target; a request that has
\* settled, with whatever outcome, never changes again; a finalized target
\* has had exactly requests_count calls, one for each request.
C11_NoRetry ==
    /\ [](\A t \in Targets :
            /\ \A r \in Requests :
                  /\ req[t][r].attempts <= 1
                  /\ req[t][r].attempts = 1 <=> req[t][r].st # "new"
            /\ Cardinality({r \in Requests : req[t][r].attempts > 0}) <= RequestsCount
            /\ pc[t] = "done" => \A r \in Requests : req[t][r].attempts = 1)
    /\ [][\A t \in Targets, r \in Requests :
            req[t][r].st \in {"responded", "error", "cancelled"} =>
                req'[t][r] = req[t][r]]_vars

\* C11 witness: a finalized target one request of which failed in transport
\* and another got a non-2xx answer, each attempted once.
C11_Witness ==
    \E t \in Targets :
        /\ pc[t] = "done"
        /\ req[t][1].st = "error"
        /\ req[t][1].attempts = 1
        /\ req[t][2].st = "responded"
        /\ req[t][2].status = 300
        /\ req[t][2].attempts = 1

IsPrefix(a, b) == Len(a) <= Len(b) /\ \A i \in 1..Len(a) : a[i] = b[i]

InSemaphore(t, sem) == \E i \in 1..Len(held[t]) : held[t][i] = sem

\* C13: in every state a task is inside the global semaphore alone or inside
\* the global and then the server semaphore, never inside the server
\* semaphore alone; each takes exactly one slot of its semaphore; a task
\* enters only before any of its requests exists, has outstanding requests
\* only while inside both, leaves only when none is outstanding, and an
\* ended task (finalized, failed or cancelled) is inside neither.
C13_GlobalAroundServer ==
    /\ [](\A t \in Targets :
            /\ IsPrefix(held[t], <<"global", "server">>)
            /\ InFlight(t) # {} => held[t] = <<"global", "server">>
            /\ Ended(t) => held[t] = <<>>
            /\ runState # "Idle" =>
                  server_value[t] = PerServerLimit - (IF InSemaphore(t, "server") THEN 1 ELSE 0))
    /\ [](runState # "Idle" =>
            global_value = MaxConcurrent
                           - Cardinality({t \in Targets : InSemaphore(t, "global")}))
    /\ [][\A t \in Targets :
            /\ Len(held'[t]) > Len(held[t]) => \A r \in Requests : req[t][r].st = "new"
            /\ Len(held'[t]) < Len(held[t]) => InFlight(t) = {} /\ held'[t] = <<>>
            /\ (\E r \in Requests : req[t][r].st = "new" /\ req'[t][r].st # "new") =>
                  held'[t] = <<"global", "server">>]_vars

\* C13 witness: one task is inside both semaphores with requests outstanding
\* while a woken task is inside the global semaphore only.
C13_Witness ==
    \E t, u \in Targets :
        /\ held[t] = <<"global", "server">>
        /\ InFlight(t) # {}
        /\ pc[u] = "woken"
        /\ held[u] = <<"global">>

\* C15: no request task ever ends with an ordinary exception: it has
\* returned with one outcome counted, or it was cancelled; and the scan after
\* the gather adds nothing: the step that finalizes a target leaves its three
\* counters as the requests left them.
C15_NoFaultEscapes ==
    /\ [](\A t \in Targets, r \in Requests :
            /\ req[t][r].st # "raised"
            /\ req[t][r].st \in {"new", "queued", "connected", "responded", "error", "cancelled"})
    /\ [](\A t \in Targets :
            pc[t] = "done" =>
                /\ stats[t].errors = Cardinality({r \in Requests : req[t][r].st = "error"})
                /\ stats[t].success + stats[t].failed
                      = Cardinality({r \in Requests : req[t][r].st = "responded"}))
    /\ [][\A t \in Targets :
            (pc[t] = "gather" /\ pc'[t] = "done") =>
                /\ stats'[t].errors = stats[t].errors
                /\ stats'[t].success = stats[t].success
                /\ stats'[t].failed = stats[t].failed]_vars

\* C15 witness: a finalized target all of whose requests failed in transport
\* and whose errors counter is requests_count, not twice that.
C15_Witness ==
    \E t \in Targets :
        /\ pc[t] = "done"
        /\ \A r \in Requests : req[t][r].st = "error"
        /\ stats[t].errors = RequestsCount
        /\ runState = "Completed"

\* C16: after a run that finished in time the returned list has one entry per
\* server, entry i is the stats dict of server i (its url is server i and its
\* counters count the requests of server i only) or the exception of task i,
\* in whatever order the tasks ended.
C16_EntriesMatchServers ==
    runState = "Completed" =>
        /\ Len(returned) = NumTargets
        /\ \A i \in Targets :
              /\ returned[i].kind = "exception" <=> pc[i] = "failed"
              /\ returned[i].kind = "dict" =>
                    /\ returned[i].stats.url = i
                    /\ returned[i].stats.success
                          = Cardinality({r \in Requests : req[i][r].st = "responded"
                                                          /\ req[i][r].status \in 200..299})
                    /\ returned[i].stats.failed
                          = Cardinality({r \in Requests : req[i][r].st = "responded"
                                                          /\ ~(req[i][r].status \in 200..299)})
                    /\ returned[i].stats.errors
                          = Cardinality({r \in Requests : req[i][r].st = "error"})

\* C16 witness: a completed run in which a task ended before the task of an
\* earlier server, and the servers had different outcomes.
C16_Witness ==
    /\ runState = "Completed"
    /\ overtaken
    /\ Len(returned) = NumTargets
    /\ returned[1].kind = "dict"
    /\ returned[1].stats.success = RequestsCount
    /\ returned[NumTargets].kind = "dict"
    /\ returned[NumTargets].stats.errors = RequestsCount

\* C17: a deadline expiry and an external cancellation end differently: a
\* timed-out run was cancelled by the deadline only, run_benchmark returned
\* and the invocation ends with status 0; an interrupted run returned and
\* reported nothing and ends with status 130; no other run ends with 130.
C17_TimedOutAndInterruptedDiffer ==
    /\ runState = "TimedOut" =>
          cause = "deadline" /\ exitStatus = 0 /\ returned = results
    /\ runState = "Interrupted" =>
          cause = "interrupt" /\ exitStatus = 130 /\ returned = <<>> /\ reported = <<>>
    /\ exitStatus = 130 <=> runState = "Interrupted"
    /\ exitStatus = 0 <=> runState \in {"Completed", "TimedOut"}
    /\ exitStatus \in {Absent, 0, 130}

\* C17 witness: an interrupted run in which a request was cancelled.
C17_Witness ==
    /\ runState = "Interrupted"
    /\ exitStatus = 130
    /\ \E t \in Targets, r \in Requests : req[t][r].st = "cancelled"

\* C19: once run_benchmark has returned, completed or timed out, no request
\* is outstanding, every target task has ended and is inside no semaphore,
\* nobody waits for the global semaphore and every semaphore is back at its
\* capacity.
C19_NothingLeftAfterReturn ==
    runState \in {"Completed", "TimedOut"} =>
        /\ \A t \in Targets :
              /\ InFlight(t) = {}
              /\ Ended(t)
              /\ held[t] = <<>>
              /\ server_value[t] = PerServerLimit
        /\ global_waiters = <<>>
        /\ global_value = MaxConcurrent

\* C19 witness: a timed-out run in which one task was cancelled with a
\* request outstanding and another before it had issued any.
C19_Witness ==
    /\ runState = "TimedOut"
    /\ \E t, u \in Targets :
          /\ pc[t] = "cancelled"
          /\ \E r \in Requests : req[t][r].st = "cancelled"
          /\ pc[u] = "cancelled"
          /\ \A r \in Requests : req[u][r].st = "new"

\* C14: with the deadline not expiring and every issued request settling,
\* every target task eventually is inside both semaphores and eventually
\* finalizes, and the run completes; a task that waits for the global
\* semaphore always has a task ahead of it that owns a slot, and a free slot
\* is never left while somebody waits.
C14_DeadlockFree ==
    /\ \A t \in Targets : <>(held[t] = <<"global", "server">>)
    /\ <>(runState = "Completed" /\ \A t \in Targets : pc[t] = "done")
    /\ [](\A t \in Targets :
            pc[t] = "waitGlobal" =>
                /\ \E u \in Targets \ {t} : HoldsGlobal(u)
                /\ global_value = 0)

\* C14 witness: a completed run of more targets than global slots in which
\* every target finalized.
C14_Witness ==
    /\ NumTargets > MaxConcurrent
    /\ runState = "Completed"
    /\ \A t \in Targets : pc[t] = "done"
    /\ overtaken
    /\ global_value = MaxConcurrent

\* A completed run has left behind the value of self.results that InitReuse
\* starts from (reached under Spec).
LeftoverLeft == runState = "Completed" /\ results = LeftoverResults

\* C20 (as claimed): the list an invocation of run_benchmark returns holds
\* only entries that invocation produced: every dict in it is the stats dict
\* of a target task that finalized in this invocation.
C20_ReturnsOwnEntries ==
    runState \in {"Completed", "TimedOut"} =>
        \A i \in Indices(returned) :
            returned[i].kind = "dict" =>
                /\ pc[returned[i].stats.url] = "done"
                /\ returned[i].stats = stats[returned[i].stats.url]

\* What the claim takes validate_url to accept: scheme http or https and a
\* non-empty host with a dot in the host itself.
HostHasDot(u) ==
    /\ u.scheme \in {"http", "https"}
    /\ u.host # <<>>
    /\ HasDot(u.host)

RECURSIVE SelectHostHasDot(_)
SelectHostHasDot(urls) ==
    IF urls = <<>> THEN <<>>
    ELSE IF HostHasDot(Head(urls)) THEN <<Head(urls)>> \o SelectHostHasDot(Tail(urls))
         ELSE SelectHostHasDot(Tail(urls))

\* C12 (as claimed): validate_url accepts a URL exactly when its scheme is
\* http or https and its host is non-empty and has a dot; the URLs kept for
\* run_benchmark are exactly those, and the rest are counted as invalid.
C12_ValidIffHostHasDot ==
    /\ \A i \in Indices(cli.urls) : validate_url(cli.urls[i]) <=> HostHasDot(cli.urls[i])
    /\ cli.pc \in {"invoked", "reported"} =>
          /\ cli.valid_urls = SelectHostHasDot(cli.urls)
          /\ cli.invalid_count = Len(cli.urls) - Len(SelectHostHasDot(cli.urls))

\* C18 (as claimed): run_benchmark is invoked only with at least one valid
\* URL and count, parallel, per-server and timeout all >= 1; an invocation
\* with any of these violated ends with exit status 1.
C18_RunOnlyWithValidArguments ==
    LET fit == /\ cli.valid_urls # <<>>
               /\ cli.count >= 1 /\ cli.parallel >= 1 /\ cli.per_server >= 1
               /\ cli.timeout >= 1
    IN /\ cli.pc \in {"invoked", "reported"} => fit
       /\ (cli.pc # "start" /\ ~fit) => (cli.pc = "exited" /\ exitStatus = 1)

====
